---- MODULE Spec2Model ----
(***************************************************************************)
(* Model of celeste_times (src/main.py): loading the save files, parsing   *)
(* the per-chapter statistics of a save, and building the rows of the      *)
(* comparison report.                                                      *)
(*                                                                         *)
(* Representation of Python values:                                        *)
(*  - a str that the program builds or inspects character by character is  *)
(*    a sequence of one-character strings ("1:05.000" is                   *)
(*    <<"1", ":", "0", "5", ".", "0", "0", "0">>); tags, chapter names and *)
(*    the Completed attribute are only compared whole and are TLA+ strings;*)
(*  - a raw time is a Python int (unbounded) counting 1/10,000,000 s. One  *)
(*    hour is 36,000,000,000 ticks, more than a 32-bit integer holds, so a *)
(*    raw time t is kept as two limbs in base 10000:                       *)
(*    [hi |-> t div 10000, lo |-> t mod 10000];                            *)
(*  - death counts are plain integers.                                     *)
(***************************************************************************)
EXTENDS Integers, Sequences, FiniteSets, TLC

VARIABLES
    files,       \* the saves directory: index -> Missing, Malformed or a document
    max_saves,   \* load_all_saves' max_saves argument
    all_saves,   \* run(): the list load_all_saves returned
    save_id_a,   \* run(): the two ids ask_to_compare returned
    save_id_b,
    save_a,      \* run(): the SaveFile parse_areas returned for save_id_a
    save_b,
    time_rows,   \* generate_results: the rows handed to the template
    death_rows,
    pc,          \* position in run()
    err,         \* the exception that ended run(), or NoError
    time_a,      \* arguments of a parse_time / find_diff call
    time_b,
    shown,       \* parse_time(time_a), once computed
    diffed       \* find_diff(time_a, time_b), once computed

vars == <<files, max_saves, all_saves, save_id_a, save_id_b, save_a, save_b,
          time_rows, death_rows, pc, err, time_a, time_b, shown, diffed>>

None == "None"
NoError == "NoError"
Unset == "Unset"

-----------------------------------------------------------------------------
(* Raw times: Python ints as two limbs in base TICKS_PER_MS.                *)

TICKS_PER_MS == 10000
MS_PER_HOUR == 3600000
MS_PER_MIN == 60000
MS_PER_SEC == 1000

Tick(h, l) == [hi |-> h, lo |-> l]
TickZero == Tick(0, 0)

\* time_a < time_b
TickLess(a, b) == a.hi < b.hi \/ (a.hi = b.hi /\ a.lo < b.lo)

\* a + b
TickAdd(a, b) ==
    LET l == a.lo + b.lo
    IN  Tick(a.hi + b.hi + (l \div TICKS_PER_MS), l % TICKS_PER_MS)

\* a - b, for a >= b
TickSub(a, b) ==
    IF a.lo >= b.lo THEN Tick(a.hi - b.hi, a.lo - b.lo)
    ELSE Tick(a.hi - b.hi - 1, a.lo + TICKS_PER_MS - b.lo)

\* max(a, b) and min(a, b): Python returns the first of two equal arguments
TickMax(a, b) == IF TickLess(a, b) THEN b ELSE a
TickMin(a, b) == IF TickLess(b, a) THEN b ELSE a

\* int(time_) // 10000
TickFloorDivMs(t) == t.hi

-----------------------------------------------------------------------------
(* String formatting.                                                       *)

DigitChars == <<"0", "1", "2", "3", "4", "5", "6", "7", "8", "9">>

RECURSIVE ToStr(_)
\* f"{n}" for n >= 0
ToStr(n) ==
    IF n < 10 THEN <<DigitChars[n + 1]>>
    ELSE ToStr(n \div 10) \o <<DigitChars[(n % 10) + 1]>>

RECURSIVE Zeros(_)
Zeros(k) == IF k <= 0 THEN <<>> ELSE <<"0">> \o Zeros(k - 1)

\* f"{n:0wd}" for n >= 0: zero-padded to at least w characters
ZeroPad(n, w) == Zeros(w - Len(ToStr(n))) \o ToStr(n)

\* parse_time with the seconds always padded to two digits
parse_time_pad_secs(time_) ==
    LET ms0 == TickFloorDivMs(time_)
        hours == ms0 \div MS_PER_HOUR
        rem1 == ms0 % MS_PER_HOUR
        mins == rem1 \div MS_PER_MIN
        rem2 == rem1 % MS_PER_MIN
        secs == rem2 \div MS_PER_SEC
        ms == rem2 % MS_PER_SEC
        head == IF hours > 0 THEN ToStr(hours) \o <<":">> \o ZeroPad(mins, 2) \o <<":">>
                ELSE IF mins > 0 THEN ToStr(mins) \o <<":">>
                ELSE <<>>
    IN  head \o ZeroPad(secs, 2) \o <<".">> \o ZeroPad(ms, 3)

parse_time(time_) ==
    LET ms0 == TickFloorDivMs(time_)
        hours == ms0 \div MS_PER_HOUR
        rem1 == ms0 % MS_PER_HOUR
        mins == rem1 \div MS_PER_MIN
        rem2 == rem1 % MS_PER_MIN
        secs == rem2 \div MS_PER_SEC
        ms == rem2 % MS_PER_SEC
        head == IF hours > 0 THEN ToStr(hours) \o <<":">> \o ZeroPad(mins, 2) \o <<":">>
                ELSE IF mins > 0 THEN ToStr(mins) \o <<":">>
                ELSE <<>>
        secpart == IF hours > 0 \/ mins > 0 THEN ZeroPad(secs, 2) \o <<".">>
                   ELSE ToStr(secs) \o <<".">>
    IN  head \o secpart \o ZeroPad(ms, 3)

\* find_diff with the prefix on the wrong side
find_diff_b_faster(ta, tb) ==
    LET a_is_faster == TickLess(tb, ta)
        diff == TickSub(TickMax(ta, tb), TickMin(ta, tb))
    IN  (IF a_is_faster THEN <<"-">> ELSE <<>>) \o parse_time(diff)

find_diff(ta, tb) ==
    LET a_is_faster == TickLess(ta, tb)
        diff == TickSub(TickMax(ta, tb), TickMin(ta, tb))
    IN  (IF a_is_faster THEN <<"-">> ELSE <<>>) \o parse_time(diff)

-----------------------------------------------------------------------------
(* XML documents (xml.etree): an element has a tag, attributes and an       *)
(* ordered list of children. Attribute values are strings.                  *)

Elem(t, a, c) == [tag |-> t, attrib |-> a, children |-> c]
NoAttrib == [x \in {} |-> <<>>]

\* what the saves directory holds at <i>.celeste
Missing == [kind |-> "missing"]                   \* no such file
Malformed == [kind |-> "malformed"]               \* a file that is not well-formed XML
XmlFile(d) == [kind |-> "xml", doc |-> d]         \* a file that ET.parse reads as d

IsDigitChar(c) == \E d \in 1..10 : DigitChars[d] = c
DigitVal(c) == (CHOOSE d \in 1..10 : DigitChars[d] = c) - 1

\* the strings int() accepts here: one or more decimal digits
IsIntStr(s) == Len(s) > 0 /\ \A i \in 1..Len(s) : IsDigitChar(s[i])

RECURSIVE IntOfStr(_)
\* int(s) for a string of decimal digits
IntOfStr(s) ==
    IF Len(s) = 0 THEN 0
    ELSE 10 * IntOfStr(SubSeq(s, 1, Len(s) - 1)) + DigitVal(s[Len(s)])

\* int(s) for a raw time: the last four digits are the low limb
TickOfStr(s) ==
    IF Len(s) <= 4 THEN Tick(0, IntOfStr(s))
    ELSE Tick(IntOfStr(SubSeq(s, 1, Len(s) - 4)), IntOfStr(SubSeq(s, Len(s) - 3, Len(s))))

-----------------------------------------------------------------------------
(* parse_areas                                                              *)

\* the catalog as written in the source, first entry "Prologue"
AreaCatalog ==
    <<"Prologue", None, None,
      "1a", "1b", "1c",
      "2a", "2b", "2c",
      "3a", "3b", "3c",
      "4a", "4b", "4c",
      "5a", "5b", "5c",
      "6a", "6b", "6c",
      "7a", "7b", "7c",
      None, None, None,
      "8a", "8b", "8c",
      "Farewell", None, None>>

Reversed(s) == [i \in 1..Len(s) |-> s[Len(s) + 1 - i]]

AreaStats(n, c, t, d) == [name |-> n, completed |-> c, time_played |-> t, deaths |-> d]
SaveFile(i, g, t, d, a) ==
    [id_ |-> i, game_completed |-> g, total_time |-> t, total_deaths |-> d, areas |-> a]

\* the locals of parse_areas before its loop
ParseStart ==
    [area_names |-> Reversed(AreaCatalog), total_deaths |-> 0, total_time |-> TickZero,
     areas |-> <<>>, game_completed |-> FALSE, exc |-> NoError]

Raise(st, e) == [st EXCEPT !.exc = e]

\* the body of the innermost loop, with the catalog read from its front
ScoreEntry_front(st, area_stats) ==
    IF Len(st.area_names) = 0 THEN Raise(st, "IndexError")
    ELSE
      LET area_name == st.area_names[1]
          popped == [st EXCEPT !.area_names = SubSeq(st.area_names, 2, Len(st.area_names))]
          a == area_stats.attrib
      IN  IF area_name = None THEN popped
          ELSE IF "Completed" \notin DOMAIN a THEN Raise(popped, "KeyError")
          ELSE IF "TimePlayed" \notin DOMAIN a THEN Raise(popped, "KeyError")
          ELSE IF ~IsIntStr(a.TimePlayed) THEN Raise(popped, "ValueError")
          ELSE IF "Deaths" \notin DOMAIN a THEN Raise(popped, "KeyError")
          ELSE IF ~IsIntStr(a.Deaths) THEN Raise(popped, "ValueError")
          ELSE
            LET completed == a.Completed = "true"
                time_played == TickOfStr(a.TimePlayed)
                deaths == IntOfStr(a.Deaths)
            IN  [popped EXCEPT
                   !.game_completed = @ \/ (completed /\ area_name = "Farewell"),
                   !.areas = Append(@, AreaStats(area_name, completed, time_played, deaths)),
                   !.total_time = TickAdd(@, time_played),
                   !.total_deaths = @ + deaths]

\* the body of the innermost loop, with any completed area ending the game
ScoreEntry_any_completed(st, area_stats) ==
    IF Len(st.area_names) = 0 THEN Raise(st, "IndexError")
    ELSE
      LET area_name == st.area_names[Len(st.area_names)]
          popped == [st EXCEPT !.area_names = SubSeq(st.area_names, 1, Len(st.area_names) - 1)]
          a == area_stats.attrib
      IN  IF area_name = None THEN popped
          ELSE IF "Completed" \notin DOMAIN a THEN Raise(popped, "KeyError")
          ELSE IF "TimePlayed" \notin DOMAIN a THEN Raise(popped, "KeyError")
          ELSE IF ~IsIntStr(a.TimePlayed) THEN Raise(popped, "ValueError")
          ELSE IF "Deaths" \notin DOMAIN a THEN Raise(popped, "KeyError")
          ELSE IF ~IsIntStr(a.Deaths) THEN Raise(popped, "ValueError")
          ELSE
            LET completed == a.Completed = "true"
                time_played == TickOfStr(a.TimePlayed)
                deaths == IntOfStr(a.Deaths)
            IN  [popped EXCEPT
                   !.game_completed = @ \/ completed,
                   !.areas = Append(@, AreaStats(area_name, completed, time_played, deaths)),
                   !.total_time = TickAdd(@, time_played),
                   !.total_deaths = @ + deaths]

\* the body of the innermost loop, keeping only completed areas
ScoreEntry_only_completed(st, area_stats) ==
    IF Len(st.area_names) = 0 THEN Raise(st, "IndexError")
    ELSE
      LET area_name == st.area_names[Len(st.area_names)]
          popped == [st EXCEPT !.area_names = SubSeq(st.area_names, 1, Len(st.area_names) - 1)]
          a == area_stats.attrib
      IN  IF area_name = None THEN popped
          ELSE IF "Completed" \notin DOMAIN a THEN Raise(popped, "KeyError")
          ELSE IF "TimePlayed" \notin DOMAIN a THEN Raise(popped, "KeyError")
          ELSE IF ~IsIntStr(a.TimePlayed) THEN Raise(popped, "ValueError")
          ELSE IF "Deaths" \notin DOMAIN a THEN Raise(popped, "KeyError")
          ELSE IF ~IsIntStr(a.Deaths) THEN Raise(popped, "ValueError")
          ELSE
            LET completed == a.Completed = "true"
                time_played == TickOfStr(a.TimePlayed)
                deaths == IntOfStr(a.Deaths)
            IN  IF ~completed THEN popped
                ELSE [popped EXCEPT
                   !.game_completed = @ \/ (completed /\ area_name = "Farewell"),
                   !.areas = Append(@, AreaStats(area_name, completed, time_played, deaths)),
                   !.total_time = TickAdd(@, time_played),
                   !.total_deaths = @ + deaths]

\* the body of the innermost loop (one area_stats element): pop a name, skip a
\* placeholder, else read the attributes and score the area
ScoreEntry(st, area_stats) ==
    IF Len(st.area_names) = 0 THEN Raise(st, "IndexError")
    ELSE
      LET area_name == st.area_names[Len(st.area_names)]
          popped == [st EXCEPT !.area_names = SubSeq(st.area_names, 1, Len(st.area_names) - 1)]
          a == area_stats.attrib
      IN  IF area_name = None THEN popped
          ELSE IF "Completed" \notin DOMAIN a THEN Raise(popped, "KeyError")
          ELSE IF "TimePlayed" \notin DOMAIN a THEN Raise(popped, "KeyError")
          ELSE IF ~IsIntStr(a.TimePlayed) THEN Raise(popped, "ValueError")
          ELSE IF "Deaths" \notin DOMAIN a THEN Raise(popped, "KeyError")
          ELSE IF ~IsIntStr(a.Deaths) THEN Raise(popped, "ValueError")
          ELSE
            LET completed == a.Completed = "true"
                time_played == TickOfStr(a.TimePlayed)
                deaths == IntOfStr(a.Deaths)
            IN  [popped EXCEPT
                   !.game_completed = @ \/ (completed /\ area_name = "Farewell"),
                   !.areas = Append(@, AreaStats(area_name, completed, time_played, deaths)),
                   !.total_time = TickAdd(@, time_played),
                   !.total_deaths = @ + deaths]

RECURSIVE StatsLoop(_, _, _)
\* for area_stats in area[0]: from the i-th child on
StatsLoop(stats, i, st) ==
    IF st.exc # NoError \/ i > Len(stats) THEN st
    ELSE StatsLoop(stats, i + 1, ScoreEntry(st, stats[i]))

RECURSIVE AreaLoop(_, _, _)
\* for area in child: from the j-th area on; area[0] raises on an area without children
AreaLoop(areas, j, st) ==
    IF st.exc # NoError \/ j > Len(areas) THEN st
    ELSE IF Len(areas[j].children) = 0 THEN Raise(st, "IndexError")
    ELSE AreaLoop(areas, j + 1, StatsLoop(areas[j].children[1].children, 1, st))

\* for child in root: only the first child tagged "Areas" is walked (break)
RootLoop(root, st) ==
    LET hits == {i \in 1..Len(root.children) : root.children[i].tag = "Areas"}
    IN  IF hits = {} THEN st
        ELSE LET first == CHOOSE i \in hits : \A k \in hits : i <= k
             IN  AreaLoop(root.children[first].children, 1, st)

\* all_saves[save_id]: Python list indexing, negative ids count from the end
InRange(saves, save_id) == -Len(saves) <= save_id /\ save_id < Len(saves)
Subscript(saves, save_id) ==
    IF save_id >= 0 THEN saves[save_id + 1] ELSE saves[Len(saves) + save_id + 1]

\* parse_areas: the SaveFile it returns, or the exception it raises
parse_areas(saves, save_id) ==
    IF ~InRange(saves, save_id) THEN [ok |-> FALSE, exc |-> "IndexError"]
    ELSE
      LET st == RootLoop(Subscript(saves, save_id), ParseStart)
      IN  IF st.exc # NoError THEN [ok |-> FALSE, exc |-> st.exc]
          ELSE [ok |-> TRUE,
                value |-> SaveFile(save_id, st.game_completed, st.total_time,
                                   st.total_deaths, st.areas)]

-----------------------------------------------------------------------------
(* load_all_saves                                                           *)

DEFAULT_MAX_SAVES == 10

FileAt(fs, i) == IF i \in DOMAIN fs THEN fs[i] ELSE Missing

RECURSIVE LoadLoop(_, _, _, _)

\* for i in range(max_saves), from index i on, skipping a missing file
LoadLoop_skip_missing(fs, limit, i, acc) ==
    IF i >= limit THEN [ok |-> TRUE, value |-> acc]
    ELSE IF FileAt(fs, i).kind = "missing" THEN LoadLoop(fs, limit, i + 1, acc)
    ELSE IF FileAt(fs, i).kind = "malformed" THEN [ok |-> FALSE, exc |-> "ParseError"]
    ELSE LoadLoop(fs, limit, i + 1, Append(acc, FileAt(fs, i).doc))

\* for i in range(max_saves), from index i on: break at a missing file,
\* ET.parse raises on a malformed one
LoadLoop(fs, limit, i, acc) ==
    IF i >= limit THEN [ok |-> TRUE, value |-> acc]
    ELSE IF FileAt(fs, i).kind = "missing" THEN [ok |-> TRUE, value |-> acc]
    ELSE IF FileAt(fs, i).kind = "malformed" THEN [ok |-> FALSE, exc |-> "ParseError"]
    ELSE LoadLoop(fs, limit, i + 1, Append(acc, FileAt(fs, i).doc))

load_all_saves(fs, limit) == LoadLoop(fs, limit, 0, <<>>)

-----------------------------------------------------------------------------
(* generate_results                                                         *)

\* Python values of mixed type in a row: a str, an int or None
PyStr(s) == [kind |-> "str", v |-> s]
PyInt(n) == [kind |-> "int", v |-> n]
PyNone == [kind |-> "none", v |-> 0]

Truthy(x) ==
    CASE x.kind = "none" -> FALSE
      [] x.kind = "str" -> Len(x.v) > 0
      [] x.kind = "int" -> x.v # 0

\* x or y
PyOr(x, y) == IF Truthy(x) THEN x ELSE y

Row(c, ra, rb, d, ab, bb) ==
    [chapter |-> c, result_a |-> ra, result_b |-> rb, diff |-> d,
     a_is_better |-> ab, b_is_better |-> bb]

\* a pair is kept when either side is completed
IncludePair_either(area_a, area_b) == area_a.completed \/ area_b.completed

\* not (area_a.completed and area_b.completed) -> continue
IncludePair(area_a, area_b) == area_a.completed /\ area_b.completed

TimeRow(area_a, area_b) ==
    Row(area_a.name,
        PyStr(parse_time(area_a.time_played)),
        PyStr(parse_time(area_b.time_played)),
        PyStr(find_diff(area_a.time_played, area_b.time_played)),
        TickLess(area_a.time_played, area_b.time_played),
        TickLess(area_b.time_played, area_a.time_played))

DeathRow(area_a, area_b) ==
    Row(area_a.name,
        PyInt(area_a.deaths),
        PyInt(area_b.deaths),
        PyInt(area_a.deaths - area_b.deaths),
        area_a.deaths < area_b.deaths,
        area_a.deaths > area_b.deaths)

Min(x, y) == IF x <= y THEN x ELSE y

RECURSIVE ChapterRows(_, _, _, _)
\* for area_a, area_b in zip(save_a.areas, save_b.areas), from the i-th pair on
ChapterRows(sa, sb, i, acc) ==
    IF i > Min(Len(sa.areas), Len(sb.areas)) THEN acc
    ELSE IF ~IncludePair(sa.areas[i], sb.areas[i]) THEN ChapterRows(sa, sb, i + 1, acc)
    ELSE ChapterRows(sa, sb, i + 1,
            [time |-> Append(acc.time, TimeRow(sa.areas[i], sb.areas[i])),
             death |-> Append(acc.death, DeathRow(sa.areas[i], sb.areas[i]))])

\* result_a, result_b: None if the save's game is completed else "-"
SidePlaceholder(game_completed) == IF game_completed THEN PyNone ELSE PyStr(<<"-">>)

\* the diff placeholder dropped as soon as one side is completed
DiffPlaceholder_either(ga, gb) == IF ga \/ gb THEN PyNone ELSE PyStr(<<"-">>)

\* diff: None if both games are completed else "-"
DiffPlaceholder(ga, gb) == IF ga /\ gb THEN PyNone ELSE PyStr(<<"-">>)

TotalTimeRow(sa, sb) ==
    LET result_a == SidePlaceholder(sa.game_completed)
        result_b == SidePlaceholder(sb.game_completed)
        diff == DiffPlaceholder(sa.game_completed, sb.game_completed)
    IN  Row("TOTAL TIME",
            PyOr(result_a, PyStr(parse_time(sa.total_time))),
            PyOr(result_b, PyStr(parse_time(sb.total_time))),
            PyOr(diff, PyStr(find_diff(sa.total_time, sb.total_time))),
            IF Truthy(diff) THEN FALSE ELSE TickLess(sa.total_time, sb.total_time),
            IF Truthy(diff) THEN FALSE ELSE TickLess(sb.total_time, sa.total_time))

TotalDeathRow(sa, sb) ==
    LET result_a == SidePlaceholder(sa.game_completed)
        result_b == SidePlaceholder(sb.game_completed)
        diff == DiffPlaceholder(sa.game_completed, sb.game_completed)
    IN  Row("TOTAL DEATHS",
            PyOr(result_a, PyInt(sa.total_deaths)),
            PyOr(result_b, PyInt(sb.total_deaths)),
            PyOr(diff, PyInt(sa.total_deaths - sb.total_deaths)),
            IF Truthy(diff) THEN FALSE ELSE sa.total_deaths < sb.total_deaths,
            IF Truthy(diff) THEN FALSE ELSE sa.total_deaths > sb.total_deaths)

\* the time_rows and death_rows that generate_results hands to the template
generate_results(sa, sb) ==
    LET chapters == ChapterRows(sa, sb, 1, [time |-> <<>>, death |-> <<>>])
    IN  [time_rows |-> Append(chapters.time, TotalTimeRow(sa, sb)),
         death_rows |-> Append(chapters.death, TotalDeathRow(sa, sb))]

-----------------------------------------------------------------------------
(* Save documents the program is run on. A save holds, in its "Areas"       *)
(* container, one element per area whose first child ("Modes") holds the    *)
(* area's AreaModeStats elements: the stats entries that parse_areas reads. *)

ModesPerArea == 3
NAreaNames == Len(AreaCatalog)

\* a raw time as the attribute text of a save file
TickStr(t) == IF t.hi = 0 THEN ToStr(t.lo) ELSE ToStr(t.hi) \o ZeroPad(t.lo, 4)

IsPlaceholderAt(k) == k >= NAreaNames \/ AreaCatalog[k + 1] = None

\* the Completed attribute of the k-th stats entry (k from 0) of a save with n entries
CompletedAt(mask, k, n) ==
    CASE mask = "none" -> "false"
      [] mask = "all" -> "true"
      [] mask = "capital" -> "True"
      [] mask = "placeholders" -> IF IsPlaceholderAt(k) THEN "true" ELSE "false"
      [] mask = "farewell" -> IF k < NAreaNames /\ AreaCatalog[k + 1] = "Farewell"
                              THEN "true" ELSE "false"
      [] mask = "not_farewell" -> IF k < NAreaNames /\ AreaCatalog[k + 1] = "Farewell"
                                  THEN "false" ELSE "true"
      [] mask = "last" -> IF k = n - 1 THEN "true" ELSE "false"
      [] mask = "even" -> IF k % 2 = 0 THEN "true" ELSE "false"

Masks == {"none", "all", "capital", "placeholders", "farewell", "not_farewell", "last", "even"}

\* the TimePlayed and Deaths of the k-th stats entry, in three profiles: a fresh
\* save, one that gets slower chapter by chapter, and an even one; the two last
\* agree on chapter 15
TimeAt(profile, k) ==
    CASE profile = "zero" -> TickZero
      [] profile = "rising" -> Tick(61000 + 1000 * k + 3600000 * (k \div 20), (2500 * k) % 10000)
      [] profile = "flat" -> Tick(76000, 7500)

DeathsAt(profile, k) ==
    CASE profile = "zero" -> 0
      [] profile = "rising" -> 2 * k
      [] profile = "flat" -> 30

Profiles == {"zero", "rising", "flat"}

StatsElem(mask, profile, k, n) ==
    Elem("AreaModeStats",
         [Completed |-> CompletedAt(mask, k, n),
          TimePlayed |-> TickStr(TimeAt(profile, k)),
          Deaths |-> ToStr(DeathsAt(profile, k))],
         <<>>)

\* the stats entries lo..hi-1 of a save
StatsRun(mask, profile, lo, hi, n) ==
    [i \in 1..(hi - lo) |-> StatsElem(mask, profile, lo + i - 1, n)]

\* a child of an area after its first: stats that parse_areas must not read
OtherChild == Elem("Other", NoAttrib,
                   <<Elem("AreaModeStats",
                          [Completed |-> "true", TimePlayed |-> <<"9", "9">>, Deaths |-> <<"7">>],
                          <<>>)>>)

AreaElem(mask, profile, j, n, extra) ==
    LET modes == Elem("Modes", NoAttrib,
                      StatsRun(mask, profile, ModesPerArea * j,
                               Min(ModesPerArea * (j + 1), n), n))
    IN  Elem("AreaStats", NoAttrib, IF extra THEN <<modes, OtherChild>> ELSE <<modes>>)

AreasElem(mask, profile, n, extra) ==
    Elem("Areas", NoAttrib,
         [i \in 1..((n + ModesPerArea - 1) \div ModesPerArea) |->
             AreaElem(mask, profile, i - 1, n, extra)])

Header == <<Elem("Name", NoAttrib, <<>>), Elem("Time", NoAttrib, <<>>),
            Elem("TotalDeaths", NoAttrib, <<>>)>>

\* a save document with n stats entries, in one of these shapes:
\*   plain     the header, then the Areas container
\*   extra     every area has a second child, and a second Areas container follows
\*   no_areas  no Areas container
\*   childless the Areas container ends with an area that has no children
\*   bare      the stats entry of the first placeholder slot has no attributes
\*   bad_int   the Deaths of the first stats entry is not a number
MkDoc(shape, mask, profile, n) ==
    LET areas == AreasElem(mask, profile, n, shape = "extra")
        bare == Elem("AreaModeStats", NoAttrib, <<>>)
        bad == Elem("AreaModeStats",
                    [Completed |-> "true", TimePlayed |-> <<"5">>, Deaths |-> <<"x">>], <<>>)
        first == areas.children[1]
        modes == first.children[1]
        patched(at, e) ==
            [areas EXCEPT !.children[1] =
               [first EXCEPT !.children[1] = [modes EXCEPT !.children[at] = e]]]
    IN  CASE shape = "plain" -> Elem("SaveData", NoAttrib, Header \o <<areas>>)
          [] shape = "extra" ->
               Elem("SaveData", NoAttrib,
                    <<areas>> \o Header \o <<AreasElem("all", "flat", NAreaNames, FALSE)>>)
          [] shape = "no_areas" -> Elem("SaveData", NoAttrib, Header)
          [] shape = "childless" ->
               Elem("SaveData", NoAttrib,
                    Header \o <<[areas EXCEPT !.children =
                                   Append(@, Elem("AreaStats", NoAttrib, <<>>))]>>)
          [] shape = "bare" ->
               Elem("SaveData", NoAttrib,
                    Header \o <<IF n >= 2 THEN patched(2, bare) ELSE areas>>)
          [] shape = "bad_int" ->
               Elem("SaveData", NoAttrib,
                    Header \o <<IF n >= 1 THEN patched(1, bad) ELSE areas>>)

Shapes == {"plain", "extra", "no_areas", "childless", "bare", "bad_int"}

\* bounds of the checked inputs
MaxEntries == 34      \* stats entries in a parsed document (one more than the catalog)
MaxShortLen == 4      \* stats entries of the short saves that are compared
MaxFiles == 3         \* files in the saves directory
MaxHours == 2         \* hours of a formatted time

\* the documents that SpecParse parses
ParseDocs ==
    {MkDoc(shape, mask, profile, n) :
        shape \in Shapes, mask \in Masks, profile \in Profiles, n \in 0..MaxEntries}

\* the documents that SpecCompare compares
CompareDocs ==
    {MkDoc(shape, mask, profile, n) :
        shape \in {"plain"}, mask \in {"none", "all", "even", "not_farewell"},
        profile \in Profiles,
        n \in (0..MaxShortLen) \cup {NAreaNames - 2, NAreaNames}}
    \cup {MkDoc("no_areas", "all", "flat", 0), MkDoc("extra", "all", "rising", NAreaNames)}

\* the documents in the saves directory of Spec
DirDocs == {MkDoc("plain", "all", "rising", NAreaNames), MkDoc("plain", "even", "flat", 1)}
DirFiles == {XmlFile(d) : d \in DirDocs} \cup {Missing, Malformed}

\* the times that SpecTime formats
TimeParts ==
    [h : (0..MaxHours) \cup {10, 123}, m : {0, 1, 2, 9, 10, 59}, s : {0, 1, 3, 5, 9, 10, 59},
     ms : {0, 1, 9, 10, 99, 100, 999}, lo : {0, 9999}]
TimeOfParts(p) ==
    Tick(p.h * MS_PER_HOUR + p.m * MS_PER_MIN + p.s * MS_PER_SEC + p.ms, p.lo)
TimeInputs == {TimeOfParts(p) : p \in TimeParts}
OtherTimes ==
    {TickZero, Tick(0, 1), Tick(0, 3000), Tick(0, 5000), Tick(65000, 0), Tick(3723000, 0),
     Tick(3723000, 9999), Tick(446400000, 0)}

-----------------------------------------------------------------------------
(* run(): load_all_saves, ask_to_compare, parse_areas twice, generate_results *)

IdleTime == /\ time_a = TickZero /\ time_b = TickZero /\ shown = Unset /\ diffed = Unset

Init ==
    /\ files \in [0..(MaxFiles - 1) -> DirFiles]
    /\ max_saves \in {0, MaxFiles - 1, DEFAULT_MAX_SAVES}
    /\ all_saves = <<>>
    /\ save_id_a = 0 /\ save_id_b = 0
    /\ save_a = Unset /\ save_b = Unset
    /\ time_rows = <<>> /\ death_rows = <<>>
    /\ pc = "start" /\ err = NoError
    /\ IdleTime

Fail(e) == pc' = "failed" /\ err' = e

LoadAllSaves ==
    /\ pc = "start"
    /\ LET r == load_all_saves(files, max_saves)
       IN  IF r.ok THEN /\ all_saves' = r.value /\ pc' = "loaded" /\ err' = err
           ELSE /\ Fail(r.exc) /\ all_saves' = all_saves
    /\ UNCHANGED <<files, max_saves, save_id_a, save_id_b, save_a, save_b,
                   time_rows, death_rows, time_a, time_b, shown, diffed>>

\* ask_to_compare: any two integers the user types
AskToCompare ==
    /\ pc = "loaded"
    /\ \E a, b \in (-(MaxFiles + 1))..(MaxFiles + 1) : save_id_a' = a /\ save_id_b' = b
    /\ pc' = "asked"
    /\ UNCHANGED <<files, max_saves, all_saves, save_a, save_b, time_rows, death_rows, err,
                   time_a, time_b, shown, diffed>>

ParseAreasA ==
    /\ pc = "asked"
    /\ LET r == parse_areas(all_saves, save_id_a)
       IN  IF r.ok THEN /\ save_a' = r.value /\ pc' = "parsed_a" /\ err' = err
           ELSE /\ Fail(r.exc) /\ save_a' = save_a
    /\ UNCHANGED <<files, max_saves, all_saves, save_id_a, save_id_b, save_b,
                   time_rows, death_rows, time_a, time_b, shown, diffed>>

ParseAreasB ==
    /\ pc = "parsed_a"
    /\ LET r == parse_areas(all_saves, save_id_b)
       IN  IF r.ok THEN /\ save_b' = r.value /\ pc' = "parsed_b" /\ err' = err
           ELSE /\ Fail(r.exc) /\ save_b' = save_b
    /\ UNCHANGED <<files, max_saves, all_saves, save_id_a, save_id_b, save_a,
                   time_rows, death_rows, time_a, time_b, shown, diffed>>

GenerateResults ==
    /\ pc = "parsed_b"
    /\ LET r == generate_results(save_a, save_b)
       IN  time_rows' = r.time_rows /\ death_rows' = r.death_rows
    /\ pc' = "done"
    /\ UNCHANGED <<files, max_saves, all_saves, save_id_a, save_id_b, save_a, save_b, err,
                   time_a, time_b, shown, diffed>>

Next == LoadAllSaves \/ AskToCompare \/ ParseAreasA \/ ParseAreasB \/ GenerateResults

Spec == Init /\ [][Next]_vars

(* parse_areas on one loaded document *)
InitParse ==
    /\ \E d \in ParseDocs : files = [i \in 0..0 |-> XmlFile(d)] /\ all_saves = <<d>>
    /\ max_saves = DEFAULT_MAX_SAVES
    /\ save_id_a = 0 /\ save_id_b = 0
    /\ save_a = Unset /\ save_b = Unset
    /\ time_rows = <<>> /\ death_rows = <<>>
    /\ pc = "asked" /\ err = NoError
    /\ IdleTime

NextParse == ParseAreasA

SpecParse == InitParse /\ [][NextParse]_vars

(* the comparison of two loaded documents *)
InitCompare ==
    /\ \E da, db \in CompareDocs :
          files = [i \in 0..1 |-> XmlFile(IF i = 0 THEN da ELSE db)] /\ all_saves = <<da, db>>
    /\ max_saves = DEFAULT_MAX_SAVES
    /\ save_id_a = 0 /\ save_id_b = 1
    /\ save_a = Unset /\ save_b = Unset
    /\ time_rows = <<>> /\ death_rows = <<>>
    /\ pc = "asked" /\ err = NoError
    /\ IdleTime

NextCompare == ParseAreasA \/ ParseAreasB \/ GenerateResults

SpecCompare == InitCompare /\ [][NextCompare]_vars

(* parse_time and find_diff on their own *)
InitTime ==
    /\ files = <<>> /\ max_saves = DEFAULT_MAX_SAVES /\ all_saves = <<>>
    /\ save_id_a = 0 /\ save_id_b = 0
    /\ save_a = Unset /\ save_b = Unset
    /\ time_rows = <<>> /\ death_rows = <<>>
    /\ pc = "time_start" /\ err = NoError
    /\ time_a \in TimeInputs
    /\ time_b \in OtherTimes
    /\ shown = Unset /\ diffed = Unset

ParseTimeCall ==
    /\ pc = "time_start"
    /\ shown' = parse_time(time_a)
    /\ pc' = "time_shown"
    /\ UNCHANGED <<files, max_saves, all_saves, save_id_a, save_id_b, save_a, save_b,
                   time_rows, death_rows, err, time_a, time_b, diffed>>

FindDiffCall ==
    /\ pc = "time_shown"
    /\ diffed' = find_diff(time_a, time_b)
    /\ pc' = "time_done"
    /\ UNCHANGED <<files, max_saves, all_saves, save_id_a, save_id_b, save_a, save_b,
                   time_rows, death_rows, err, time_a, time_b, shown>>

NextTime == ParseTimeCall \/ FindDiffCall

SpecTime == InitTime /\ [][NextTime]_vars

-----------------------------------------------------------------------------
(* Properties.                                                              *)

\* the stats entries of a document in document order: the children of the first
\* child of each area of its first Areas container
RECURSIVE ConcatModes(_, _)
ConcatModes(areas, j) ==
    IF j > Len(areas) THEN <<>>
    ELSE areas[j].children[1].children \o ConcatModes(areas, j + 1)

StatsEntries(doc) ==
    LET hits == {i \in 1..Len(doc.children) : doc.children[i].tag = "Areas"}
    IN  IF hits = {} THEN <<>>
        ELSE ConcatModes(doc.children[CHOOSE i \in hits : \A k \in hits : i <= k].children, 1)

\* the k-th stats entry (k from 1) is paired with a real chapter of the forward catalog
IsReal(k) == k <= NAreaNames /\ AreaCatalog[k] # None

EntryCompleted(e) == "Completed" \in DOMAIN e.attrib /\ e.attrib.Completed = "true"

RECURSIVE PairedAreas(_, _)
\* direct indexed pairing: entry k with AreaCatalog[k], placeholders left out
PairedAreas(entries, k) ==
    IF k > Len(entries) THEN <<>>
    ELSE (IF IsReal(k)
          THEN <<AreaStats(AreaCatalog[k], entries[k].attrib.Completed = "true",
                           TickOfStr(entries[k].attrib.TimePlayed),
                           IntOfStr(entries[k].attrib.Deaths))>>
          ELSE <<>>) \o PairedAreas(entries, k + 1)

RECURSIVE RealDeaths(_, _)
RealDeaths(entries, k) ==
    IF k > Len(entries) THEN 0
    ELSE (IF IsReal(k) THEN IntOfStr(entries[k].attrib.Deaths) ELSE 0)
         + RealDeaths(entries, k + 1)

RECURSIVE RealTime(_, _)
RealTime(entries, k) ==
    IF k > Len(entries) THEN TickZero
    ELSE TickAdd(IF IsReal(k) THEN TickOfStr(entries[k].attrib.TimePlayed) ELSE TickZero,
                 RealTime(entries, k + 1))

ParsedA == pc = "parsed_a"
EntriesA == StatsEntries(all_saves[save_id_a + 1])

\* C3: parse_areas pairs the k-th stats entry of the document with the k-th slot of
\* the forward catalog: the areas it returns are, in order, the AreaStats of the
\* entries paired with a real chapter, a placeholder slot consumes its entry without
\* producing an area, and the totals are the sums over the entries paired with a real
\* chapter.
C3_ForwardPairing ==
    ParsedA =>
        /\ Len(EntriesA) <= NAreaNames
        /\ save_a.areas = PairedAreas(EntriesA, 1)
        /\ save_a.total_deaths = RealDeaths(EntriesA, 1)
        /\ save_a.total_time = RealTime(EntriesA, 1)

\* a full document parsed, with completed entries in placeholder slots
C3_Witness ==
    /\ ParsedA
    /\ Len(EntriesA) = NAreaNames
    /\ \E k \in 1..Len(EntriesA) : ~IsReal(k) /\ EntryCompleted(EntriesA[k])
    /\ Len(save_a.areas) < Len(EntriesA)
    /\ save_a.areas[Len(save_a.areas)].name = "Farewell"

FarewellSlot == CHOOSE k \in 1..NAreaNames : AreaCatalog[k] = "Farewell"

\* C6: game_completed of the returned SaveFile is true exactly when the stats entry
\* paired with "Farewell" has Completed="true".
C6_GameCompletedIffFarewell ==
    ParsedA =>
        (save_a.game_completed <=>
            /\ Len(EntriesA) >= FarewellSlot
            /\ EntryCompleted(EntriesA[FarewellSlot]))

\* a save whose last entry (a placeholder) and other chapters are completed, Farewell not
C6_Witness ==
    /\ ParsedA
    /\ Len(EntriesA) = NAreaNames
    /\ EntryCompleted(EntriesA[NAreaNames])
    /\ \E k \in 1..Len(EntriesA) : IsReal(k) /\ EntryCompleted(EntriesA[k])
    /\ ~save_a.game_completed

\* only placeholder slots are marked completed
OnlyPlaceholdersCompleted(entries) ==
    /\ \E k \in 1..Len(entries) : ~IsReal(k) /\ EntryCompleted(entries[k])
    /\ \A k \in 1..Len(entries) : IsReal(k) => ~EntryCompleted(entries[k])

\* C7 as stated: a save in which only placeholder slots are marked completed parses
\* to an empty areas list and zero totals.
C7_Original ==
    (ParsedA /\ OnlyPlaceholdersCompleted(EntriesA)) =>
        /\ save_a.areas = <<>>
        /\ save_a.total_time = TickZero
        /\ save_a.total_deaths = 0

\* C7 amended: such a save parses to one area, not completed, per stats entry paired
\* with a real chapter (never an empty list: the first entry is the Prologue's), with
\* the totals the sums of those entries' TimePlayed and Deaths, and game_completed
\* false.
C7_UncompletedAreasKept ==
    (ParsedA /\ OnlyPlaceholdersCompleted(EntriesA)) =>
        /\ Len(save_a.areas) = Cardinality({k \in 1..Len(EntriesA) : IsReal(k)})
        /\ Len(save_a.areas) > 0
        /\ \A i \in 1..Len(save_a.areas) : ~save_a.areas[i].completed
        /\ save_a.total_time = RealTime(EntriesA, 1)
        /\ save_a.total_deaths = RealDeaths(EntriesA, 1)
        /\ ~save_a.game_completed

C7_Witness ==
    /\ ParsedA
    /\ OnlyPlaceholdersCompleted(EntriesA)
    /\ save_a.total_deaths > 0
    /\ Len(save_a.areas) > 1

Done == pc = "done"
AreasA == save_a.areas
AreasB == save_b.areas
Pairs == 1..Min(Len(AreasA), Len(AreasB))

\* the positions of the pairs with both sides completed, and the j-th of them
Qualifying == {i \in Pairs : AreasA[i].completed /\ AreasB[i].completed}
NthQualifying(j) ==
    CHOOSE i \in Qualifying : Cardinality({k \in Qualifying : k <= i}) = j

\* C1: time_rows and death_rows hold one row per positional pair of areas with both
\* sides completed, in areas order and labelled with the chapter, then one totals row
\* as last element; other pairs appear in neither, and both have the same length and
\* chapter labels.
C1_RowsAreCompletedPairsThenTotal ==
    Done =>
        /\ Len(time_rows) = Cardinality(Qualifying) + 1
        /\ Len(death_rows) = Cardinality(Qualifying) + 1
        /\ time_rows[Len(time_rows)].chapter = "TOTAL TIME"
        /\ death_rows[Len(death_rows)].chapter = "TOTAL DEATHS"
        /\ \A j \in 1..Cardinality(Qualifying) :
              LET i == NthQualifying(j)
              IN  /\ time_rows[j].chapter = AreasA[i].name
                  /\ death_rows[j].chapter = AreasA[i].name
                  /\ time_rows[j].result_a = PyStr(parse_time(AreasA[i].time_played))
                  /\ time_rows[j].result_b = PyStr(parse_time(AreasB[i].time_played))
                  /\ death_rows[j].result_a = PyInt(AreasA[i].deaths)
                  /\ death_rows[j].result_b = PyInt(AreasB[i].deaths)

\* some pairs qualify and some are left out
C1_Witness ==
    /\ Done
    /\ Cardinality(Qualifying) >= 2
    /\ \E i \in Pairs : i \notin Qualifying /\ \E k \in Qualifying : k > i
    /\ \E i \in Pairs : AreasA[i].completed /\ ~AreasB[i].completed

Dash == PyStr(<<"-">>)
TotalTime == time_rows[Len(time_rows)]
TotalDeaths == death_rows[Len(death_rows)]

\* C2: in the totals rows a side's result is "-" exactly when that side's game is
\* not completed and its total otherwise; with a side not completed the diff is "-"
\* and both flags are false; with both completed the diff is the signed difference
\* and the flags are the strict comparisons of the totals.
C2_TotalsRow ==
    Done =>
        /\ TotalTime.result_a =
              (IF save_a.game_completed THEN PyStr(parse_time(save_a.total_time)) ELSE Dash)
        /\ TotalTime.result_b =
              (IF save_b.game_completed THEN PyStr(parse_time(save_b.total_time)) ELSE Dash)
        /\ TotalDeaths.result_a =
              (IF save_a.game_completed THEN PyInt(save_a.total_deaths) ELSE Dash)
        /\ TotalDeaths.result_b =
              (IF save_b.game_completed THEN PyInt(save_b.total_deaths) ELSE Dash)
        /\ (TotalTime.result_a = Dash <=> ~save_a.game_completed)
        /\ (TotalTime.result_b = Dash <=> ~save_b.game_completed)
        /\ IF save_a.game_completed /\ save_b.game_completed
           THEN /\ TotalTime.diff = PyStr(find_diff(save_a.total_time, save_b.total_time))
                /\ TotalDeaths.diff = PyInt(save_a.total_deaths - save_b.total_deaths)
                /\ TotalTime.a_is_better = TickLess(save_a.total_time, save_b.total_time)
                /\ TotalTime.b_is_better = TickLess(save_b.total_time, save_a.total_time)
                /\ TotalDeaths.a_is_better = (save_a.total_deaths < save_b.total_deaths)
                /\ TotalDeaths.b_is_better = (save_a.total_deaths > save_b.total_deaths)
           ELSE /\ TotalTime.diff = Dash
                /\ TotalDeaths.diff = Dash
                /\ ~TotalTime.a_is_better /\ ~TotalTime.b_is_better
                /\ ~TotalDeaths.a_is_better /\ ~TotalDeaths.b_is_better

\* A has completed the game, B has not, and the raw totals differ
C2_Witness ==
    /\ Done
    /\ save_a.game_completed /\ ~save_b.game_completed
    /\ TickLess(save_b.total_time, save_a.total_time)
    /\ save_a.total_deaths # save_b.total_deaths
    /\ TotalTime.result_b = Dash

\* C10: two SaveFiles that parse_areas returned name the same chapter at every
\* position below the shorter areas list, so every chapter row compares the values of
\* one chapter, and no row comes from a position beyond the shorter list.
C10_PairsCompareSameChapter ==
    /\ pc \in {"parsed_b", "done"} =>
          \A i \in Pairs : AreasA[i].name = AreasB[i].name
    /\ Done =>
          /\ Len(death_rows) - 1 <= Min(Len(AreasA), Len(AreasB))
          /\ \A j \in 1..(Len(death_rows) - 1) :
                \E i \in Pairs :
                   /\ death_rows[j].chapter = AreasA[i].name
                   /\ death_rows[j].chapter = AreasB[i].name
                   /\ death_rows[j].result_a = PyInt(AreasA[i].deaths)
                   /\ death_rows[j].result_b = PyInt(AreasB[i].deaths)
                   /\ time_rows[j].chapter = AreasB[i].name

\* saves of different lengths, with uncompleted areas, compared
C10_Witness ==
    /\ Done
    /\ Len(AreasA) > Len(AreasB)
    /\ Len(AreasB) >= 2
    /\ \E i \in 1..Len(AreasA) : ~AreasA[i].completed
    /\ Len(death_rows) >= 2

\* the first index that load_all_saves does not load: the smallest index below
\* max_saves without a well-formed file, or max_saves
FirstStop ==
    LET stops == {i \in 0..(max_saves - 1) : FileAt(files, i).kind # "xml"}
    IN  IF stops = {} THEN max_saves ELSE CHOOSE i \in stops : \A k \in stops : i <= k

LoadFailed == pc = "failed" /\ err = "ParseError"

\* C5: load_all_saves returns the documents of the files 0..k-1, in order, where k is
\* the smallest missing index or max_saves; files after a gap are not loaded, at most
\* max_saves documents are returned, and a missing file is no error (only a file that
\* is not well-formed, met before any gap, is).
C5_LoadsPrefixUpToFirstGap ==
    pc # "start" =>
        /\ LoadFailed <=> (FirstStop < max_saves /\ FileAt(files, FirstStop).kind = "malformed")
        /\ ~LoadFailed =>
              /\ Len(all_saves) = FirstStop
              /\ Len(all_saves) <= max_saves
              /\ \A i \in 0..(FirstStop - 1) : all_saves[i + 1] = files[i].doc
              /\ FirstStop < max_saves => FileAt(files, FirstStop).kind = "missing"

\* a directory with a gap and a well-formed file after it, loaded up to the gap
C5_Witness ==
    /\ pc = "loaded"
    /\ Len(all_saves) >= 1
    /\ Len(all_saves) < max_saves
    /\ \E i \in DOMAIN files : i > Len(all_saves) /\ files[i].kind = "xml"

\* C4 as stated: parse_areas returns a SaveFile only for an id in 0..len(all_saves)-1.
C4_OutOfRangeAlwaysFails ==
    /\ pc \in {"parsed_a", "parsed_b", "done"} =>
          (0 <= save_id_a /\ save_id_a < Len(all_saves))
    /\ pc \in {"parsed_b", "done"} =>
          (0 <= save_id_b /\ save_id_b < Len(all_saves))

\* |a - b| for two raw times
AbsDiff(a, b) ==
    LET big == IF TickLess(a, b) THEN b ELSE a
        small == IF TickLess(a, b) THEN a ELSE b
        borrow == IF big.lo < small.lo THEN 1 ELSE 0
    IN  Tick(big.hi - small.hi - borrow, big.lo + borrow * TICKS_PER_MS - small.lo)

\* a string without its leading minus sign
Magnitude(s) == IF Len(s) > 0 /\ s[1] = "-" THEN SubSeq(s, 2, Len(s)) ELSE s

TimeDone == pc = "time_done"

\* C8: find_diff(a, b) is parse_time(|a - b|), with a single leading "-" exactly when
\* a < b; find_diff(a, b) and find_diff(b, a) differ at most by that prefix.
C8_DiffIsSignedFormattedDistance ==
    TimeDone =>
        /\ TickAdd(IF TickLess(time_a, time_b) THEN time_a ELSE time_b,
                   AbsDiff(time_a, time_b))
              = (IF TickLess(time_a, time_b) THEN time_b ELSE time_a)
        /\ diffed = (IF TickLess(time_a, time_b) THEN <<"-">> ELSE <<>>)
                       \o parse_time(AbsDiff(time_a, time_b))
        /\ (diffed[1] = "-") <=> TickLess(time_a, time_b)
        /\ Magnitude(diffed) = Magnitude(find_diff(time_b, time_a))

C8_Witness ==
    /\ TimeDone
    /\ TickLess(time_a, time_b)
    /\ time_a.lo > time_b.lo
    /\ diffed[1] = "-"

\* the positions of a character in a string
Positions(s, c) == {i \in 1..Len(s) : s[i] = c}

\* a string of digits without padding: a single digit, or one not starting with "0"
Unpadded(s) == IsIntStr(s) /\ (Len(s) = 1 \/ s[1] # "0")

TimeShown == pc \in {"time_shown", "time_done"}
ShownMs == time_a.hi                                   \* raw div 10000
ShownHours == ShownMs \div MS_PER_HOUR
ShownMins == (ShownMs % MS_PER_HOUR) \div MS_PER_MIN
ShownSecs == (ShownMs % MS_PER_MIN) \div MS_PER_SEC
ShownMillis == ShownMs % MS_PER_SEC

\* the fields of the rendered time, cut at the colons and at the dot
ShownDot == CHOOSE i \in Positions(shown, ".") : TRUE
ShownColons == Positions(shown, ":")
ShownFrac == SubSeq(shown, ShownDot + 1, Len(shown))
LastColon == IF ShownColons = {} THEN 0
             ELSE CHOOSE i \in ShownColons : \A k \in ShownColons : k <= i
FirstColon == IF ShownColons = {} THEN 0
              ELSE CHOOSE i \in ShownColons : \A k \in ShownColons : i <= k
SecsField == SubSeq(shown, LastColon + 1, ShownDot - 1)
MinsField == IF Cardinality(ShownColons) = 2 THEN SubSeq(shown, FirstColon + 1, LastColon - 1)
             ELSE SubSeq(shown, 1, LastColon - 1)
HoursField == SubSeq(shown, 1, FirstColon - 1)

\* C9: parse_time renders raw div 10000 milliseconds as "H:MM:SS.mmm" when hours > 0,
\* "M:SS.mmm" when hours = 0 and minutes > 0, and "S.mmm" otherwise: minutes and
\* seconds are padded to two digits only behind a larger field, milliseconds always
\* have three digits; 0 gives "0.000", 65 s gives "1:05.000", 1 h 2 min 3 s gives
\* "1:02:03.000".
C9_ConditionalPadding ==
    TimeShown =>
        /\ Cardinality(Positions(shown, ".")) = 1
        /\ \A i \in ShownColons : i < ShownDot
        /\ Len(ShownFrac) = 3 /\ IsIntStr(ShownFrac) /\ IntOfStr(ShownFrac) = ShownMillis
        /\ IsIntStr(SecsField) /\ IntOfStr(SecsField) = ShownSecs
        /\ Cardinality(ShownColons) =
              (IF ShownHours > 0 THEN 2 ELSE IF ShownMins > 0 THEN 1 ELSE 0)
        /\ IF ShownHours > 0
           THEN /\ Unpadded(HoursField) /\ IntOfStr(HoursField) = ShownHours
                /\ Len(MinsField) = 2 /\ IsIntStr(MinsField) /\ IntOfStr(MinsField) = ShownMins
                /\ Len(SecsField) = 2
           ELSE IF ShownMins > 0
           THEN /\ Unpadded(MinsField) /\ IntOfStr(MinsField) = ShownMins
                /\ Len(SecsField) = 2
           ELSE Unpadded(SecsField)
        /\ time_a = Tick(0, 0) => shown = <<"0", ".", "0", "0", "0">>
        /\ time_a = Tick(65 * MS_PER_SEC, 0) =>
              shown = <<"1", ":", "0", "5", ".", "0", "0", "0">>
        /\ time_a = Tick(MS_PER_HOUR + 2 * MS_PER_MIN + 3 * MS_PER_SEC, 0) =>
              shown = <<"1", ":", "0", "2", ":", "0", "3", ".", "0", "0", "0">>

\* a time below ten seconds with ticks left over by the division
C9_Witness ==
    /\ TimeShown
    /\ time_a = Tick(9 * MS_PER_SEC + 10, 9999)
    /\ shown = <<"9", ".", "0", "1", "0">>

====
